---- MODULE Spec2Model ----
(***************************************************************************)
(* WebGPU execution backend of onnxruntime-web.                            *)
(*                                                                         *)
(*   js/web/lib/wasm/jsep/backend-webgpu.ts     (variant "jsep")           *)
(*   js/web/lib/onnxjs/backends/backend-webgpu.ts (variant "onnxjs")       *)
(*                                                                         *)
(* The backend object is modelled as a record `s` of its fields; every     *)
(* method is an operator from a backend record to a backend record (plus   *)
(* the error it throws, if any), and every action of the state machine     *)
(* applies one method to the current fields.  computeKernel calls back     *)
(* into the kernel entry point, which itself calls run, so it is split at  *)
(* the callback: ComputeKernel is the code up to the call of kernelEntry,  *)
(* KernelReturn / KernelThrow is the finally block.                        *)
(***************************************************************************)
EXTENDS Integers, Sequences, FiniteSets, TLC

(***************************************************************************)
(* Bounds of the model.                                                    *)
(***************************************************************************)
MaxEncoders == 3      \* command encoders created on the device
MaxCommands == 3      \* commands recorded on the device
MaxBuffers == 2       \* GPU buffers created by run
MaxDepth == 2         \* nested computeKernel frames the model can hold
MaxPasses == 3        \* compute passes begun on the device

KernelIds == {1, 2}

\* null / undefined of a field that otherwise holds a positive id
NULL == 0
\* temporaryData before the first assignment (the field has no initializer);
\* buffer ids are positive, so this value is no list of buffers
UNDEFINED == <<0>>

(***************************************************************************)
(* Strings are sequences of one-character strings, so that concatenation   *)
(* and join are what the JavaScript does.                                  *)
(***************************************************************************)
Digits == <<"0", "1", "2", "3", "4", "5", "6", "7", "8", "9">>

RECURSIVE NumberToString(_)
NumberToString(n) ==
    IF n < 10 THEN <<Digits[n + 1]>>
    ELSE NumberToString(n \div 10) \o <<Digits[(n % 10) + 1]>>

RECURSIVE Join(_, _)
Join(parts, sep) ==
    IF Len(parts) = 0 THEN <<>>
    ELSE IF Len(parts) = 1 THEN parts[1]
    ELSE parts[1] \o sep \o Join(Tail(parts), sep)

\* d.join(',')
DimsToString(d) == Join([i \in 1..Len(d) |-> NumberToString(d[i])], <<",">>)

getProgramInfoUniqueKey(programInfo, inputTensorShapes, inputGpuDataTypes) ==
    LET inputTensorShapesToString ==
            Join([i \in 1..Len(inputTensorShapes) |-> DimsToString(inputTensorShapes[i])],
                 <<"_">>)
        inputGpuDataTypesToString ==
            Join([i \in 1..Len(inputGpuDataTypes) |-> NumberToString(inputGpuDataTypes[i])],
                 <<"_">>)
        key1 == programInfo.name
        key2 == IF Len(programInfo.cacheHint) > 0
                THEN key1 \o <<"[">> \o programInfo.cacheHint \o <<"]">>
                ELSE key1
    IN  key2 \o <<":">> \o inputTensorShapesToString \o <<";">> \o inputGpuDataTypesToString

(***************************************************************************)
(* The GPU device: command encoders, compute passes and the queue.         *)
(*   encoders[e] = [state, commands]   state in {"open", "finished"}       *)
(*   passes[p]   = [encoder, ends]     ends = number of end() calls        *)
(*   queue       = the command buffers submitted, in order                 *)
(*   invalid     = a call the WebGPU validation rejects has been made      *)
(***************************************************************************)
PassIsOpen(dev, p) == dev.passes[p].ends = 0

OpenPassesOn(dev, e) ==
    {p \in 1..Len(dev.passes) : dev.passes[p].encoder = e /\ PassIsOpen(dev, p)}

createCommandEncoder(dev) ==
    [dev EXCEPT !.encoders = Append(@, [state |-> "open", commands |-> <<>>])]

beginComputePass(dev, e) ==
    [dev EXCEPT !.passes = Append(@, [encoder |-> e, ends |-> 0]),
                !.invalid = @ \/ dev.encoders[e].state # "open"
                              \/ OpenPassesOn(dev, e) # {}]

end(dev, p) ==
    [dev EXCEPT !.passes[p].ends = @ + 1,
                !.invalid = @ \/ ~PassIsOpen(dev, p)]

\* a command recorded in pass p lands in the command buffer of p's encoder
dispatchWorkgroups(dev, p) ==
    LET e == dev.passes[p].encoder
    IN  [dev EXCEPT !.encoders[e].commands = Append(@, dev.nextCommand),
                    !.nextCommand = @ + 1,
                    !.invalid = @ \/ ~PassIsOpen(dev, p)]

\* a copy recorded on encoder e, outside any pass
copyBufferToBuffer(dev, e) ==
    [dev EXCEPT !.encoders[e].commands = Append(@, dev.nextCommand),
                !.nextCommand = @ + 1,
                !.invalid = @ \/ dev.encoders[e].state # "open"
                              \/ OpenPassesOn(dev, e) # {}]

\* commandEncoder.finish() followed by queue.submit([buffer])
finishAndSubmit(dev, e) ==
    [dev EXCEPT !.encoders[e].state = "finished",
                !.queue = Append(@, dev.encoders[e].commands),
                !.invalid = @ \/ dev.encoders[e].state # "open"
                              \/ OpenPassesOn(dev, e) # {}]

(***************************************************************************)
(* GpuDataManager: storage = live buffer ids; buffers[id] is the history   *)
(* of buffer id:                                                           *)
(*   released = times it was released                                      *)
(*   marker   = the output index run created it for (-2 temporary,         *)
(*              -1 persistent)                                             *)
(*   kernel   = currentKernelId when it was created                        *)
(*   inCall   = a kernel entry point was running when it was created       *)
(* Released buffers are destroyed at the next flush                        *)
(* (refreshPendingBuffers); the model does not follow them further.        *)
(*   reads = the downloads requested and not yet delivered:                *)
(*           [id, copy] where copy is the command that copies buffer id    *)
(*           for the host, so that commands 1..copy are the commands       *)
(*           recorded before the download suspended                        *)
(***************************************************************************)
gpuDataCreate(m, marker, kernel, inCall) ==
    [m EXCEPT !.storage = @ \cup {m.nextId},
              !.nextId = @ + 1,
              !.buffers = Append(@, [released |-> 0, marker |-> marker,
                                     kernel |-> kernel, inCall |-> inCall])]

\* release(id): throws when id is not in the storage
gpuDataReleaseThrows(m, id) == id \notin m.storage

gpuDataRelease(m, id) ==
    [m EXCEPT !.storage = @ \ {id},
              !.buffers[id].released = @ + 1]

refreshPendingBuffers(m) == m

(***************************************************************************)
(* initialize.  The environment it meets:                                  *)
(*   gpu              navigator.gpu is defined                             *)
(*   adapter          requestAdapter() yields an adapter                   *)
(*   timestampQuery   the adapter has the feature 'timestamp-query'        *)
(*   profilingDefault env.webgpu.profilingMode is 'default'                *)
(*   deviceFails      requestDevice() rejects                              *)
(*   querySetFails    createQuerySet() throws                              *)
(* It ends as [err, result]: err is the error the promise is rejected      *)
(* with, "none" when it is fulfilled, and result the value it is           *)
(* fulfilled with.  The fields initialize assigns hold after it what they  *)
(* hold in a new backend, so the record of fields is left as it is.        *)
(***************************************************************************)
Environments ==
    [gpu : BOOLEAN, adapter : BOOLEAN, timestampQuery : BOOLEAN,
     profilingDefault : BOOLEAN, deviceFails : BOOLEAN, querySetFails : BOOLEAN]

initializeJsep(s, e) ==
    LET profilingEnabled == e.timestampQuery /\ e.profilingDefault
    IN  IF ~e.gpu THEN [s |-> s, err |-> "NotAvailable", result |-> "none"]
        ELSE IF ~e.adapter THEN [s |-> s, err |-> "NoAdapter", result |-> "none"]
        ELSE IF e.deviceFails THEN [s |-> s, err |-> "DeviceError", result |-> "none"]
        ELSE IF profilingEnabled /\ e.querySetFails
             THEN [s |-> s, err |-> "QuerySetError", result |-> "none"]
        ELSE [s |-> s, err |-> "none", result |-> "undefined"]

initializeOnnxjs(s, e) ==
    LET supportProfiling == e.timestampQuery
    IN  IF ~e.gpu THEN [s |-> s, err |-> "none", result |-> "false"]
        ELSE IF ~e.adapter THEN [s |-> s, err |-> "none", result |-> "false"]
        ELSE IF e.deviceFails THEN [s |-> s, err |-> "none", result |-> "false"]
        ELSE IF supportProfiling /\ e.querySetFails
             THEN [s |-> s, err |-> "none", result |-> "false"]
        ELSE [s |-> s, err |-> "none", result |-> "true"]

initialize(s, e) == IF s.variant = "jsep" THEN initializeJsep(s, e) ELSE initializeOnnxjs(s, e)

(***************************************************************************)
(* Recording session of the backend (both variants).                       *)
(***************************************************************************)
getCommandEncoder(s) ==
    IF s.commandEncoder = NULL
    THEN LET dev == createCommandEncoder(s.device)
         IN  [s EXCEPT !.device = dev, !.commandEncoder = Len(dev.encoders)]
    ELSE s

getComputePassEncoder(s) ==
    IF s.computePassEncoder = NULL
    THEN LET s1 == getCommandEncoder(s)
             dev == beginComputePass(s1.device, s1.commandEncoder)
         IN  [s1 EXCEPT !.device = dev, !.computePassEncoder = Len(dev.passes)]
    ELSE s

\* endComputePass that ends the pass and keeps the handle
endComputePass_keepsHandle(s) ==
    IF s.computePassEncoder # NULL
    THEN [s EXCEPT !.device = end(s.device, s.computePassEncoder)]
    ELSE s

endComputePass(s) ==
    IF s.computePassEncoder # NULL
    THEN [s EXCEPT !.device = end(s.device, s.computePassEncoder),
                   !.computePassEncoder = NULL]
    ELSE s

\* a flush that finishes the encoder without ending the compute pass
flushJsep_passLeftOpen(s) ==
    LET s2 == getCommandEncoder(s)
    IN  [s |-> [s2 EXCEPT !.device = finishAndSubmit(s2.device, s2.commandEncoder),
                          !.gpuDataManager = refreshPendingBuffers(@),
                          !.computePassEncoder = NULL,
                          !.commandEncoder = NULL,
                          !.pendingDispatchNumber = 0],
         err |-> "none"]

\* a flush that submits and keeps the finished encoder as the current one
flushJsep_encoderKept(s) ==
    LET s1 == endComputePass(s)
        s2 == getCommandEncoder(s1)
    IN  [s |-> [s2 EXCEPT !.device = finishAndSubmit(s2.device, s2.commandEncoder),
                          !.gpuDataManager = refreshPendingBuffers(@),
                          !.pendingDispatchNumber = 0],
         err |-> "none"]

\* a flush that does nothing when no dispatch is pending
flushJsep_onlyDispatches(s) ==
    IF s.pendingDispatchNumber = 0 THEN [s |-> s, err |-> "none"]
    ELSE
    LET s1 == endComputePass(s)
        s2 == getCommandEncoder(s1)
    IN  [s |-> [s2 EXCEPT !.device = finishAndSubmit(s2.device, s2.commandEncoder),
                          !.gpuDataManager = refreshPendingBuffers(@),
                          !.commandEncoder = NULL,
                          !.pendingDispatchNumber = 0],
         err |-> "none"]

\* a flush that submits and leaves the counter as it is
flushJsep_counterKept(s) ==
    LET s1 == endComputePass(s)
        s2 == getCommandEncoder(s1)
    IN  [s |-> [s2 EXCEPT !.device = finishAndSubmit(s2.device, s2.commandEncoder),
                          !.gpuDataManager = refreshPendingBuffers(@),
                          !.commandEncoder = NULL],
         err |-> "none"]

\* jsep flush: finishes this.getCommandEncoder()
flushJsep(s) ==
    LET s1 == endComputePass(s)
        s2 == getCommandEncoder(s1)
    IN  [s |-> [s2 EXCEPT !.device = finishAndSubmit(s2.device, s2.commandEncoder),
                          !.gpuDataManager = refreshPendingBuffers(@),
                          !.commandEncoder = NULL,
                          !.pendingDispatchNumber = 0],
         err |-> "none"]

\* onnxjs flush: finishes this.commandEncoder!, a TypeError when it is null
flushOnnxjs(s) ==
    LET s1 == endComputePass(s)
    IN  IF s1.commandEncoder = NULL
        THEN [s |-> s1, err |-> "TypeError"]
        ELSE [s |-> [s1 EXCEPT !.device = finishAndSubmit(s1.device, s1.commandEncoder),
                               !.commandEncoder = NULL,
                               !.pendingDispatchNumber = 0],
              err |-> "none"]

flush(s) == IF s.variant = "jsep" THEN flushJsep(s) ELSE flushOnnxjs(s)

(***************************************************************************)
(* Buffers and data transfer.  The backend hands these to the              *)
(* GpuDataManager, which records copies in the recording session.          *)
(***************************************************************************)
\* a kernel output index marks the buffers made by alloc
alloc(s) ==
    [s EXCEPT !.gpuDataManager = gpuDataCreate(@, 0, s.currentKernelId, s.callStack # <<>>)]

\* GpuDataManager.memcpy: a device-to-device copy recorded outside any pass
gpuDataMemcpy(s, src, dst) ==
    IF src \notin s.gpuDataManager.storage \/ dst \notin s.gpuDataManager.storage
    THEN [s |-> s, err |-> "NotFound"]
    ELSE LET s1 == getCommandEncoder(s)
             s2 == endComputePass(s1)
         IN  [s |-> [s2 EXCEPT !.device = copyBufferToBuffer(s2.device, s2.commandEncoder)],
              err |-> "none"]

memcpy(s, src, dst) == gpuDataMemcpy(s, src, dst)

\* GpuDataManager.download up to its wait: schedules the copy of the buffer
\* for the host in the recording session and a synchronization point, the
\* flush that submits it
gpuDataDownload(s, id) ==
    IF id \notin s.gpuDataManager.storage
    THEN [s |-> s, err |-> "NotFound"]
    ELSE LET s1 == getCommandEncoder(s)
             s2 == endComputePass(s1)
             copy == s2.device.nextCommand
             s3 == [s2 EXCEPT !.device = copyBufferToBuffer(s2.device, s2.commandEncoder),
                              !.gpuDataManager.reads = Append(@, [id |-> id, copy |-> copy])]
         IN  [s |-> flush(s3).s, err |-> "none"]

\* download up to the await
download(s, gpuDataId) == gpuDataDownload(s, gpuDataId)

\* download after the await: the bytes of read i are set into the host's array
downloadDeliver(s, i) ==
    [s EXCEPT !.gpuDataManager.reads =
        SubSeq(@, 1, i - 1) \o SubSeq(@, i + 1, Len(@))]

(***************************************************************************)
(* Programs handed to run.  A ProgramInfoLoader has a get() that yields    *)
(* the program info; a ProgramInfo is used as it is.  outputs is the       *)
(* number of declared outputs.                                             *)
(***************************************************************************)
ProgramA ==
    [name |-> <<"a">>, cacheHint |-> <<"h">>, inputTypes |-> <<0>>,
     outputs |-> 1, loader |-> TRUE]

ProgramB ==
    [name |-> <<"a", "[", "h", "]">>, cacheHint |-> <<>>, inputTypes |-> <<0>>,
     outputs |-> 2, loader |-> FALSE]

Programs == {ProgramA, ProgramB}

\* input tensors: dims, the type of their GPU data, and whether
\* gpuDataManager.get finds GPU data for them
Tensor(dims, type) == [dims |-> dims, type |-> type, data |-> TRUE]

ValidInputs == <<Tensor(<<2, 3>>, 0)>>

InputLists ==
    { ValidInputs,
      <<[dims |-> <<2, 3>>, type |-> 0, data |-> FALSE]>>,
      <<Tensor(<<2, 3>>, 0), Tensor(<<2, 3>>, 0)>> }

\* Output slots are JavaScript numbers.  All the model uses are integers but
\* Half, which stands for the number 0.5: it is no integer, and it compares
\* with an integer as its floor, 0, does.
Half == 50

IsInteger(v) == v # Half

Floor(v) == IF v = Half THEN 0 ELSE v

OutputIndexLists ==
    { <<>>, <<0>>, <<-2>>, <<-1>>, <<0, 1>>, <<-2, -1>>, <<-1, 2>>, <<-2, -3>>,
      <<-1, Half>> }

\* the calls of run a kernel entry point makes in the model: every output
\* request on valid inputs, and one request on each list of inputs that run
\* rejects
RunCalls ==
    { c \in {ProgramB} \X InputLists \X OutputIndexLists :
        c[2] = ValidInputs \/ c[3] = <<0>> }

\* the calls of run the model makes against the program cache: both
\* programs, on inputs of two shapes and types
CacheInputLists == InputLists \cup { <<Tensor(<<2>>, 1)>> }

CacheOutputIndexLists == { <<>>, <<0>>, <<0, 1>>, <<-1, 2>>, <<0, 1, 0>>, <<0, 0>> }

CacheRunCalls == Programs \X CacheInputLists \X CacheOutputIndexLists

EmptyMap == [x \in {} |-> NULL]

Put(map, k, v) == [x \in (DOMAIN map) \cup {k} |-> IF x = k THEN v ELSE map[x]]

Remove(map, k) == [x \in (DOMAIN map) \ {k} |-> map[x]]

(***************************************************************************)
(* ProgramManager: artifacts = the cache, serial = artifacts built so far, *)
(* built = keys build was called for, loaded = keys ProgramInfoLoader.get  *)
(* was called for.                                                         *)
(***************************************************************************)
\* what getArtifact yields for a key that is not cached
NoArtifact == [programInfo |-> [outputs |-> 0], serial |-> 0]

IsUndefined(artifact) == artifact.serial = 0

getArtifact(pm, key) ==
    IF key \in DOMAIN pm.artifacts THEN pm.artifacts[key] ELSE NoArtifact

setArtifact(pm, key, artifact) == [pm EXCEPT !.artifacts = Put(@, key, artifact)]

\* build(programInfo): a new artifact, numbered in the order of compilation
build(pm, programInfo) == [programInfo |-> programInfo, serial |-> pm.serial + 1]

get(program) ==
    [name |-> program.name, cacheHint |-> program.cacheHint,
     inputTypes |-> program.inputTypes, outputs |-> program.outputs]

FlushThreshold == 2

\* programManager.run: records one dispatch in the current compute pass,
\* counts it, and flushes when the counter reaches the threshold
programManagerRun(s) ==
    LET s1 == getComputePassEncoder(s)
        s2 == [s1 EXCEPT !.device = dispatchWorkgroups(s1.device, s1.computePassEncoder),
                         !.pendingDispatchNumber = @ + 1]
    IN  IF s2.pendingDispatchNumber >= FlushThreshold THEN flush(s2).s ELSE s2

(***************************************************************************)
(* run                                                                     *)
(***************************************************************************)
\* the check of one output slot
invalidOutputIndex(index, programInfo) ==
    \/ ~IsInteger(index)
    \/ Floor(index) < -2
    \/ Floor(index) >= programInfo.outputs

\* createKernelOutput(index, ...): the tensor of output index of the kernel,
\* which is one tensor however often the run asks for it; the positions
\* before i that asked for the same index hold it already, and otherwise
\* its buffer is allocated now
createKernelOutput(s, validatedOutputIndices, i, out) ==
    LET earlier == {j \in 1..(i - 1) : validatedOutputIndices[j] = validatedOutputIndices[i]}
    IN  IF earlier # {} THEN out[CHOOSE j \in earlier : TRUE]
        ELSE s.gpuDataManager.nextId

\* the output loop of run, from output i on; out = buffers bound so far
RECURSIVE createOutputs(_, _, _, _, _)
createOutputs(s, programInfo, validatedOutputIndices, i, out) ==
    IF i > programInfo.outputs THEN [s |-> s, err |-> "none", out |-> out]
    ELSE
    LET index == validatedOutputIndices[i]
    IN  IF invalidOutputIndex(index, programInfo)
        THEN [s |-> s, err |-> "InvalidOutputIndex", out |-> out]
        ELSE
        LET isTemporary == index = -2
            isPersistent == index = -1
            \* createTemporaryOutput / createKernelOutput yield the tensor
            gpuData == IF isTemporary \/ isPersistent
                       THEN s.gpuDataManager.nextId
                       ELSE createKernelOutput(s, validatedOutputIndices, i, out)
            s1 == IF gpuData = s.gpuDataManager.nextId
                  THEN [s EXCEPT !.gpuDataManager =
                           gpuDataCreate(@, index, s.currentKernelId, s.callStack # <<>>)]
                  ELSE s
        IN  IF isTemporary /\ s1.temporaryData = UNDEFINED
            THEN [s |-> s1, err |-> "TypeError", out |-> out]
            ELSE
            LET s2 == IF isTemporary
                      THEN [s1 EXCEPT !.temporaryData = Append(@, gpuData)]
                      ELSE s1
                persistentData == IF s2.currentKernelId \in DOMAIN s2.kernelPersistentData
                                  THEN s2.kernelPersistentData[s2.currentKernelId]
                                  ELSE <<>>
                s3 == IF isPersistent
                      THEN [s2 EXCEPT !.kernelPersistentData =
                                Put(@, s2.currentKernelId, Append(persistentData, gpuData))]
                      ELSE s2
            IN  createOutputs(s3, programInfo, validatedOutputIndices, i + 1,
                              Append(out, gpuData))

InputKey(program, inputs) ==
    getProgramInfoUniqueKey(program, [i \in 1..Len(inputs) |-> inputs[i].dims],
                            [i \in 1..Len(inputs) |-> inputs[i].type])

\* a run that builds whether or not the key is cached
needsBuild_always(artifact) == TRUE

\* the artifact is built when the cache has none for the key
needsBuild(artifact) == IsUndefined(artifact)

\* a check of the inputs against the number of outputs
inputSizeMismatch_outputs(program, inputs) == Len(inputs) # program.outputs

\* the check of the number of inputs
inputSizeMismatch(program, inputs) == Len(inputs) # Len(program.inputTypes)

\* an empty request taken as it is
validateOutputIndices_asGiven(outputIndices, programInfo) == outputIndices

\* an empty request stands for all outputs of the program, in order
validateOutputIndices(outputIndices, programInfo) ==
    IF Len(outputIndices) = 0 THEN [i \in 1..programInfo.outputs |-> i - 1]
    ELSE outputIndices

run(s, program, inputs, outputIndices) ==
    LET Fail(st, e) ==
            [s |-> st, err |-> e, key |-> <<>>, artifact |-> NoArtifact, out |-> <<>>,
             loads |-> FALSE, builds |-> FALSE]
    IN
    IF inputSizeMismatch(program, inputs) THEN Fail(s, "InputSize")
    ELSE IF \E i \in 1..Len(inputs) : ~inputs[i].data THEN Fail(s, "NoInputData")
    ELSE
    LET key == InputKey(program, inputs)
        artifact == getArtifact(s.programManager, key)
        useLoader == IsUndefined(artifact) /\ program.loader
        programInfo == IF ~IsUndefined(artifact) THEN artifact.programInfo ELSE get(program)
        s1 == IF useLoader
              THEN [s EXCEPT !.programManager.loaded = @ \cup {key}]
              ELSE s
        validatedOutputIndices == validateOutputIndices(outputIndices, programInfo)
    IN  IF Len(validatedOutputIndices) # programInfo.outputs
        THEN [Fail(s1, "OutputSize") EXCEPT !.key = key, !.loads = useLoader]
        ELSE
        LET o == createOutputs(s1, programInfo, validatedOutputIndices, 1, <<>>)
        IN  IF o.err # "none"
            THEN [Fail(o.s, o.err) EXCEPT !.key = key, !.loads = useLoader]
            ELSE
            LET built == build(o.s.programManager, programInfo)
                s2 == IF needsBuild(artifact)
                      THEN [o.s EXCEPT !.programManager =
                               [setArtifact(@, key, built) EXCEPT
                                   !.serial = @ + 1,
                                   !.built = @ \cup {key}]]
                      ELSE o.s
                used == IF needsBuild(artifact) THEN built ELSE artifact
            IN  [s |-> programManagerRun(s2), err |-> "none", key |-> key,
                 artifact |-> used, out |-> o.out,
                 loads |-> useLoader, builds |-> needsBuild(artifact)]

(***************************************************************************)
(* Kernels.  WEBGPU_OP_RESOLVE_RULES maps a kernel name to its entry point *)
(* and, for some kernels, an attribute parser.                             *)
(*   kernels[id] = [name, parser, attribute, parsed]                       *)
(*     parser    = attributes[0] is defined                                *)
(*     attribute = attributes[1]: "raw" payload or "parsed" value          *)
(*     parsed    = times the parser ran for this instance                  *)
(***************************************************************************)
KernelNames == {"Add", "Conv", "Unknown"}

WEBGPU_OP_RESOLVE_RULES == [Add |-> [parser |-> FALSE], Conv |-> [parser |-> TRUE]]

\* a createKernel that registers the instance before it looks up the rule
createKernel_registersFirst(s, name, kernelId) ==
    LET known == name \in DOMAIN WEBGPU_OP_RESOLVE_RULES
        s1 == [s EXCEPT !.kernels =
                  Put(@, kernelId, [name |-> name,
                                    parser |-> known /\ WEBGPU_OP_RESOLVE_RULES[name].parser,
                                    attribute |-> "raw",
                                    parsed |-> 0])]
    IN  [s |-> s1, err |-> IF known THEN "none" ELSE "NotImplemented"]

createKernel(s, name, kernelId) ==
    IF name \notin DOMAIN WEBGPU_OP_RESOLVE_RULES
    THEN [s |-> s, err |-> "NotImplemented"]
    ELSE [s |-> [s EXCEPT !.kernels =
                    Put(@, kernelId, [name |-> name,
                                      parser |-> WEBGPU_OP_RESOLVE_RULES[name].parser,
                                      attribute |-> "raw",
                                      parsed |-> 0])],
          err |-> "none"]

\* releases data[i..] in order; stops at the first release that throws
RECURSIVE releaseAll(_, _, _)
releaseAll(m, data, i) ==
    IF i > Len(data) THEN [m |-> m, err |-> "none"]
    ELSE IF gpuDataReleaseThrows(m, data[i]) THEN [m |-> m, err |-> "ReleaseError"]
    ELSE releaseAll(gpuDataRelease(m, data[i]), data, i + 1)

\* a releaseKernel that removes the instance and keeps its buffers
releaseKernel_buffersKept(s, kernelId) ==
    [s |-> [s EXCEPT !.kernelPersistentData = Remove(@, kernelId),
                     !.kernels = Remove(@, kernelId)],
     err |-> "none"]

releaseKernel(s, kernelId) ==
    IF kernelId \in DOMAIN s.kernelPersistentData
    THEN LET r == releaseAll(s.gpuDataManager, s.kernelPersistentData[kernelId], 1)
         IN  IF r.err # "none"
             THEN [s |-> [s EXCEPT !.gpuDataManager = r.m], err |-> r.err]
             ELSE [s |-> [s EXCEPT !.gpuDataManager = r.m,
                                   !.kernelPersistentData = Remove(@, kernelId),
                                   !.kernels = Remove(@, kernelId)],
                   err |-> "none"]
    ELSE [s |-> [s EXCEPT !.kernels = Remove(@, kernelId)], err |-> "none"]

\* the checks at the head of computeKernel
computeKernelGuard(s, kernelId) ==
    IF kernelId \notin DOMAIN s.kernels THEN "NotCreated"
    ELSE IF s.currentKernelId # NULL THEN "Recursive"
    ELSE "none"

\* a computeKernel that keeps the parser after it has run
computeKernelEnter_parserKept(s, kernelId, parserThrows) ==
    LET guard == computeKernelGuard(s, kernelId)
    IN
    IF guard # "none" THEN [s |-> s, err |-> guard, entered |-> FALSE]
    ELSE
    LET s1 == [s EXCEPT !.currentKernelId = kernelId]
        attributes == s1.kernels[kernelId]
    IN  IF attributes.parser /\ parserThrows
        THEN [s |-> [s1 EXCEPT !.kernels[kernelId].parsed = @ + 1],
              err |-> "ParseError", entered |-> FALSE]
        ELSE
        LET s2 == IF attributes.parser
                  THEN [s1 EXCEPT !.kernels[kernelId] =
                            [@ EXCEPT !.attribute = "parsed", !.parsed = @ + 1]]
                  ELSE s1
        IN  [s |-> [s2 EXCEPT !.temporaryData = <<>>,
                              !.callStack = Append(@, kernelId)],
             err |-> "none", entered |-> TRUE]

\* a computeKernel that resets temporaryData before its checks
computeKernelEnter_resetsFirst(s, kernelId, parserThrows) ==
    LET s0 == [s EXCEPT !.temporaryData = <<>>]
        guard == computeKernelGuard(s0, kernelId)
    IN
    IF guard # "none" THEN [s |-> s0, err |-> guard, entered |-> FALSE]
    ELSE
    LET s1 == [s0 EXCEPT !.currentKernelId = kernelId]
        attributes == s1.kernels[kernelId]
    IN  IF attributes.parser /\ parserThrows
        THEN [s |-> [s1 EXCEPT !.kernels[kernelId].parsed = @ + 1],
              err |-> "ParseError", entered |-> FALSE]
        ELSE
        LET s2 == IF attributes.parser
                  THEN [s1 EXCEPT !.kernels[kernelId] =
                            [@ EXCEPT !.attribute = "parsed", !.parser = FALSE,
                                      !.parsed = @ + 1]]
                  ELSE s1
        IN  [s |-> [s2 EXCEPT !.callStack = Append(@, kernelId)],
             err |-> "none", entered |-> TRUE]

\* computeKernel up to the call of kernelEntry; entered = kernelEntry is called
computeKernelEnter(s, kernelId, parserThrows) ==
    LET guard == computeKernelGuard(s, kernelId)
    IN
    IF guard # "none" THEN [s |-> s, err |-> guard, entered |-> FALSE]
    ELSE
    LET s1 == [s EXCEPT !.currentKernelId = kernelId]
        attributes == s1.kernels[kernelId]
    IN  IF attributes.parser /\ parserThrows
        THEN [s |-> [s1 EXCEPT !.kernels[kernelId].parsed = @ + 1],
              err |-> "ParseError", entered |-> FALSE]
        ELSE
        LET s2 == IF attributes.parser
                  THEN [s1 EXCEPT !.kernels[kernelId] =
                            [@ EXCEPT !.attribute = "parsed", !.parser = FALSE,
                                      !.parsed = @ + 1]]
                  ELSE s1
        IN  [s |-> [s2 EXCEPT !.temporaryData = <<>>,
                              !.callStack = Append(@, kernelId)],
             err |-> "none", entered |-> TRUE]

\* the finally block of computeKernel, run when kernelEntry returns or throws
computeKernelFinally(s) ==
    LET r == releaseAll(s.gpuDataManager, s.temporaryData, 1)
        s1 == [s EXCEPT !.gpuDataManager = r.m,
                        !.callStack = SubSeq(@, 1, Len(@) - 1)]
    IN  IF r.err # "none" THEN [s |-> s1, err |-> r.err]
        ELSE [s |-> [s1 EXCEPT !.temporaryData = <<>>, !.currentKernelId = NULL],
              err |-> "none"]

\* an error thrown to the kernel entry point: it either catches it, or lets
\* it propagate out of kernelEntry, which runs the finally block
throwToKernel(r, propagates) ==
    IF r.err # "none" /\ r.s.callStack # <<>> /\ propagates
    THEN computeKernelFinally(r.s).s
    ELSE r.s

(***************************************************************************)
(* State: the fields of the backend object, the objects it owns, and       *)
(*   variant   - which of the two backend classes this object is           *)
(*   callStack - kernel ids of the computeKernel calls whose kernelEntry   *)
(*               is running, outermost first                               *)
(*   last      - the last method called, by whom, and how it ended         *)
(***************************************************************************)
VARIABLES variant, currentKernelId, temporaryData, kernelPersistentData, kernels,
          commandEncoder, computePassEncoder, pendingDispatchNumber,
          device, gpuDataManager, programManager, callStack, last

vars == <<variant, currentKernelId, temporaryData, kernelPersistentData, kernels,
          commandEncoder, computePassEncoder, pendingDispatchNumber,
          device, gpuDataManager, programManager, callStack, last>>

St ==
    [variant |-> variant, currentKernelId |-> currentKernelId,
     temporaryData |-> temporaryData, kernelPersistentData |-> kernelPersistentData,
     kernels |-> kernels, commandEncoder |-> commandEncoder,
     computePassEncoder |-> computePassEncoder,
     pendingDispatchNumber |-> pendingDispatchNumber, device |-> device,
     gpuDataManager |-> gpuDataManager, programManager |-> programManager,
     callStack |-> callStack]

Commit(s) ==
    /\ variant' = s.variant
    /\ currentKernelId' = s.currentKernelId
    /\ temporaryData' = s.temporaryData
    /\ kernelPersistentData' = s.kernelPersistentData
    /\ kernels' = s.kernels
    /\ commandEncoder' = s.commandEncoder
    /\ computePassEncoder' = s.computePassEncoder
    /\ pendingDispatchNumber' = s.pendingDispatchNumber
    /\ device' = s.device
    /\ gpuDataManager' = s.gpuDataManager
    /\ programManager' = s.programManager
    /\ callStack' = s.callStack

WithinBounds(s) ==
    /\ Len(s.device.encoders) <= MaxEncoders
    /\ Len(s.device.passes) <= MaxPasses
    /\ s.device.nextCommand - 1 <= MaxCommands
    /\ s.gpuDataManager.nextId - 1 <= MaxBuffers
    /\ Len(s.callStack) <= MaxDepth

\* frame = the kernel whose entry point made the call, NULL for the host
Called(op, err) ==
    [op |-> op, err |-> err,
     frame |-> IF callStack # <<>> THEN callStack[Len(callStack)] ELSE NULL]

InitFields ==
    /\ currentKernelId = NULL
    /\ temporaryData = UNDEFINED
    /\ kernelPersistentData = EmptyMap
    /\ kernels = EmptyMap
    /\ commandEncoder = NULL
    /\ computePassEncoder = NULL
    /\ pendingDispatchNumber = 0
    /\ device = [encoders |-> <<>>, passes |-> <<>>, queue |-> <<>>,
                 nextCommand |-> 1, invalid |-> FALSE]
    /\ gpuDataManager = [storage |-> {}, nextId |-> 1,
                         buffers |-> <<>>, reads |-> <<>>]
    /\ programManager = [artifacts |-> EmptyMap, serial |-> 0,
                         built |-> {}, loaded |-> {}]
    /\ callStack = <<>>
    /\ last = Called("new", "none")

(***************************************************************************)
(* Actions: one per method; the kernel entry point's return and throw.     *)
(***************************************************************************)
GetCommandEncoder ==
    LET s == getCommandEncoder(St)
    IN  /\ WithinBounds(s)
        /\ Commit(s)
        /\ last' = Called("getCommandEncoder", "none")

GetComputePassEncoder ==
    LET s == getComputePassEncoder(St)
    IN  /\ WithinBounds(s)
        /\ Commit(s)
        /\ last' = Called("getComputePassEncoder", "none")

EndComputePass ==
    /\ Commit(endComputePass(St))
    /\ last' = Called("endComputePass", "none")

Flush ==
    LET r == flush(St)
    IN  /\ WithinBounds(r.s)
        /\ Commit(r.s)
        /\ last' = Called("flush", r.err)

\* the program manager recording a dispatch
RecordDispatch ==
    LET s == programManagerRun(St)
    IN  /\ WithinBounds(s)
        /\ Commit(s)
        /\ last' = Called("dispatch", "none")

CreateKernel(name, kernelId) ==
    LET r == createKernel(St, name, kernelId)
    IN  /\ variant = "jsep"
        /\ Commit(r.s)
        /\ last' = Called("createKernel", r.err)

ReleaseKernel(kernelId) ==
    LET r == releaseKernel(St, kernelId)
    IN  /\ variant = "jsep"
        /\ Commit(r.s)
        /\ last' = Called("releaseKernel", r.err)

ComputeKernel(kernelId, parserThrows, propagates) ==
    LET r == computeKernelEnter(St, kernelId, parserThrows)
        s == throwToKernel(r, propagates)
    IN  /\ variant = "jsep"
        /\ WithinBounds(s)
        /\ Commit(s)
        /\ last' = Called("computeKernel", r.err)

KernelReturn ==
    LET r == computeKernelFinally(St)
    IN  /\ callStack # <<>>
        /\ Commit(r.s)
        /\ last' = Called("return", r.err)

KernelThrow ==
    LET r == computeKernelFinally(St)
    IN  /\ callStack # <<>>
        /\ Commit(r.s)
        /\ last' = Called("throw", r.err)

Run(program, inputs, outputIndices, propagates) ==
    LET r == run(St, program, inputs, outputIndices)
        s == throwToKernel(r, propagates)
    IN  /\ variant = "jsep"
        /\ WithinBounds(s)
        /\ Commit(s)
        /\ last' = Called("run", r.err)

\* initialize, called once on a new backend
Initialize(e) ==
    LET r == initialize(St, e)
    IN  /\ last.op = "new"
        /\ Commit(r.s)
        /\ last' = [op |-> "initialize", err |-> r.err, frame |-> NULL,
                    result |-> r.result]

Alloc ==
    LET s == alloc(St)
    IN  /\ variant = "jsep"
        /\ WithinBounds(s)
        /\ Commit(s)
        /\ last' = Called("alloc", "none")

Memcpy(src, dst) ==
    LET r == memcpy(St, src, dst)
    IN  /\ variant = "jsep"
        /\ WithinBounds(r.s)
        /\ Commit(r.s)
        /\ last' = Called("memcpy", r.err)

Download(gpuDataId) ==
    LET r == download(St, gpuDataId)
    IN  /\ variant = "jsep"
        /\ WithinBounds(r.s)
        /\ Commit(r.s)
        /\ last' = Called("download", r.err)

DownloadDeliver(i) ==
    /\ i \in 1..Len(gpuDataManager.reads)
    /\ Commit(downloadDeliver(St, i))
    /\ last' = Called("deliver", "none")

\* whether an error thrown to the kernel entry point propagates out of it;
\* with no kernel entry point running there is nothing to choose
Propagation == IF callStack # <<>> THEN BOOLEAN ELSE {FALSE}

Init == variant = "jsep" /\ InitFields

InitSession == variant \in {"jsep", "onnxjs"} /\ InitFields

\* the kernel registry and the execution core of the jsep backend
Next ==
    \/ \E name \in KernelNames, kernelId \in KernelIds : CreateKernel(name, kernelId)
    \/ \E kernelId \in KernelIds : ReleaseKernel(kernelId)
    \/ \E kernelId \in KernelIds, parserThrows \in BOOLEAN, propagates \in Propagation :
          ComputeKernel(kernelId, parserThrows, propagates)
    \/ KernelReturn
    \/ KernelThrow
    \/ \E c \in RunCalls, propagates \in Propagation : Run(c[1], c[2], c[3], propagates)

Spec == Init /\ [][Next]_vars

\* one kernel instance of the jsep backend and the runs of its entry point
InvokedKernel == 1

NextInvoke ==
    \/ \E name \in KernelNames : CreateKernel(name, InvokedKernel)
    \/ ReleaseKernel(InvokedKernel)
    \/ \E parserThrows \in BOOLEAN, propagates \in Propagation :
          ComputeKernel(InvokedKernel, parserThrows, propagates)
    \/ KernelReturn
    \/ KernelThrow
    \/ \E c \in RunCalls, propagates \in Propagation : Run(c[1], c[2], c[3], propagates)

SpecInvoke == Init /\ [][NextInvoke]_vars

\* the kernel registry of the jsep backend: two instances whose entry points
\* ask run for one temporary or one persistent buffer
RegistryRunCalls == {ProgramA} \X {ValidInputs} \X {<<-1>>, <<-2>>}

\* a name with an attribute parser and a name with no rule
RegistryNames == {"Conv", "Unknown"}

NextRegistry ==
    \/ \E name \in RegistryNames, kernelId \in KernelIds : CreateKernel(name, kernelId)
    \/ \E kernelId \in KernelIds : ReleaseKernel(kernelId)
    \/ \E kernelId \in KernelIds, parserThrows \in BOOLEAN, propagates \in Propagation :
          ComputeKernel(kernelId, parserThrows, propagates)
    \/ KernelReturn
    \/ KernelThrow
    \/ \E c \in RegistryRunCalls, propagates \in Propagation :
          Run(c[1], c[2], c[3], propagates)

SpecRegistry == Init /\ [][NextRegistry]_vars

\* the execution core of the jsep backend against the program cache
NextCache == \E c \in CacheRunCalls : Run(c[1], c[2], c[3], FALSE)

SpecCache == Init /\ [][NextCache]_vars

\* the command batcher of both backends
NextSession ==
    \/ GetCommandEncoder
    \/ GetComputePassEncoder
    \/ EndComputePass
    \/ Flush
    \/ RecordDispatch

SpecSession == InitSession /\ [][NextSession]_vars

\* initialize has been called and has not failed
Initialized ==
    /\ last.op # "new"
    /\ last.op = "initialize" => last.err = "none" /\ last.result # "false"

\* both backends from their construction: initialize, then the command
\* batcher of a backend whose initialization succeeded
NextInitialize ==
    \/ \E e \in Environments : Initialize(e)
    \/ Initialized /\ GetCommandEncoder
    \/ Initialized /\ GetComputePassEncoder
    \/ Initialized /\ EndComputePass
    \/ Initialized /\ Flush
    \/ Initialized /\ RecordDispatch

SpecInitialize == InitSession /\ [][NextInitialize]_vars

\* buffer ids the host passes: those alloc has returned and one it has not
HostBufferIds == 1..(MaxBuffers + 1)

\* host readback of the jsep backend: buffers, copies, dispatches, flushes
\* and downloads
NextReadback ==
    \/ Alloc
    \/ \E src \in HostBufferIds, dst \in HostBufferIds : Memcpy(src, dst)
    \/ RecordDispatch
    \/ Flush
    \/ \E gpuDataId \in HostBufferIds : Download(gpuDataId)
    \/ \E i \in 1..MaxCommands : DownloadDeliver(i)

SpecReadback == Init /\ [][NextReadback]_vars

(***************************************************************************)
(* Properties                                                              *)
(***************************************************************************)
Registered == DOMAIN kernels

\* a computeKernel call ends in this step: its kernel entry point returns or
\* throws, an error propagates out of it, or the attribute parser throws
CallEnds ==
    \/ Len(callStack') < Len(callStack)
    \/ \E kernelId \in Registered, propagates \in BOOLEAN :
          /\ ComputeKernel(kernelId, TRUE, propagates)
          /\ computeKernelEnter(St, kernelId, TRUE).err = "ParseError"

BufferIds == 1..Len(gpuDataManager.buffers)

\* C1: while a kernel is executing, computeKernel for any registered
\* instance is rejected as recursive; once no computeKernel call is in
\* progress, computeKernel for a registered instance is not rejected as
\* recursive.
C1_NoReentrancy ==
    \A B \in Registered :
        (computeKernelGuard(St, B) = "Recursive") <=> (callStack # <<>>)

\* C2: a computeKernel call that passed the unknown-instance and reentrancy
\* checks leaves currentKernelId null when it ends, however it ends.
C2_MarkerCleared == [][CallEnds => currentKernelId' = NULL]_vars

\* C3: when a computeKernel call ends, temporaryData is empty and every
\* buffer created under the temporary marker during a call has been released
\* exactly once; a buffer created under the persistent marker during a call
\* is released only by releaseKernel of the kernel that was executing.
C3_TemporaryReclaim ==
    [][ /\ CallEnds =>
            /\ temporaryData' = <<>>
            /\ \A b \in BufferIds :
                  gpuDataManager.buffers[b].marker = -2 /\ gpuDataManager.buffers[b].inCall
                      => gpuDataManager'.buffers[b].released = 1
        /\ \A b \in BufferIds :
              /\ gpuDataManager.buffers[b].marker = -1
              /\ gpuDataManager.buffers[b].inCall
              /\ gpuDataManager'.buffers[b].released # gpuDataManager.buffers[b].released
              => /\ gpuDataManager.buffers[b].released = 0
                 /\ ReleaseKernel(gpuDataManager.buffers[b].kernel)
      ]_vars

OpenEncoders == {e \in 1..Len(device.encoders) : device.encoders[e].state = "open"}

OpenPasses == {p \in 1..Len(device.passes) : PassIsOpen(device, p)}

RECURSIVE Flatten(_)
Flatten(q) == IF Len(q) = 0 THEN <<>> ELSE q[1] \o Flatten(Tail(q))

\* C5: at most one command encoder is open, and it is the current one; an
\* open compute pass is the current one and was begun on the current, open
\* command encoder; no encoder was finished with a pass open on it, and no
\* other call the device rejects was made.
C5_RecordingSession ==
    /\ Cardinality(OpenEncoders) <= 1
    /\ OpenEncoders = IF commandEncoder = NULL THEN {} ELSE {commandEncoder}
    /\ OpenPasses = IF computePassEncoder = NULL THEN {} ELSE {computePassEncoder}
    /\ \A p \in OpenPasses : device.passes[p].encoder = commandEncoder
    /\ ~device.invalid

\* a flush has finished an encoder on which a compute pass had been open
C5_Witness ==
    /\ last.op = "flush"
    /\ Len(device.queue) > 0
    /\ \E p \in 1..Len(device.passes) :
          /\ device.passes[p].ends = 1
          /\ device.encoders[device.passes[p].encoder].state = "finished"

\* C6: flush with no command encoder open does not fail and changes nothing:
\* it creates no encoder and submits nothing.
C6_FlushWithoutSession ==
    commandEncoder = NULL => flush(St) = [s |-> St, err |-> "none"]

\* C7: endComputePass twice leaves the state endComputePass once leaves, and
\* with no pass open it changes nothing.
C7_EndComputePassIdempotent ==
    /\ endComputePass(endComputePass(St)) = endComputePass(St)
    /\ computePassEncoder = NULL => endComputePass(St) = St

\* endComputePass has ended an open pass
C7_Witness ==
    /\ last.op = "endComputePass"
    /\ computePassEncoder = NULL
    /\ commandEncoder # NULL
    /\ \E p \in 1..Len(device.passes) :
          device.passes[p].ends = 1 /\ device.passes[p].encoder = commandEncoder

\* every command recorded so far, in recording order
Recorded == [i \in 1..(device.nextCommand - 1) |-> i]

\* C8: flush with a command encoder open leaves no pass and no encoder open
\* and the counter at 0; it submits the commands of that encoder as one
\* buffer, after which the queue holds every command recorded so far exactly
\* once, in recording order.
C8_FlushPostcondition ==
    /\ Flatten(device.queue) = SubSeq(Recorded, 1, Len(Flatten(device.queue)))
    /\ commandEncoder # NULL =>
          LET r == flush(St)
          IN  /\ r.err = "none"
              /\ r.s.computePassEncoder = NULL
              /\ r.s.commandEncoder = NULL
              /\ r.s.pendingDispatchNumber = 0
              /\ r.s.device.queue =
                    Append(device.queue, device.encoders[commandEncoder].commands)
              /\ Flatten(r.s.device.queue) = Recorded
              /\ OpenPassesOn(r.s.device, commandEncoder) = {}
              /\ r.s.device.encoders[commandEncoder].state = "finished"
              /\ ~r.s.device.invalid

\* two flushes have each submitted the commands recorded since the one before
C8_Witness ==
    /\ last.op = "flush"
    /\ Len(device.queue) >= 2
    /\ device.queue[1] # <<>>
    /\ device.queue[2] # <<>>
    /\ commandEncoder = NULL
    /\ pendingDispatchNumber = 0

Artifacts == programManager.artifacts

\* the inputs of call c pass the checks run makes before it computes the key
InputsAccepted(c) ==
    /\ Len(c[2]) = Len(c[1].inputTypes)
    /\ \A i \in 1..Len(c[2]) : c[2][i].data

\* the program info run works with: the cached artifact's, if the key of the
\* call is cached, and the program's own otherwise
Resolved(c) ==
    LET key == InputKey(c[1], c[2])
    IN  IF key \in DOMAIN Artifacts THEN Artifacts[key].programInfo ELSE get(c[1])

\* C4 as claimed: no run calls build, or ProgramInfoLoader.get, for a key it
\* was called for before; a successful run on a cached key dispatches the
\* cached artifact; no run replaces a cached artifact.
C4_CompileOnce ==
    \A c \in CacheRunCalls :
        LET r == run(St, c[1], c[2], c[3])
        IN  /\ r.builds => r.key \notin programManager.built
            /\ r.loads => r.key \notin programManager.loaded
            /\ r.err = "none" /\ r.key \in DOMAIN Artifacts => r.artifact = Artifacts[r.key]
            /\ \A k \in DOMAIN Artifacts :
                  /\ k \in DOMAIN r.s.programManager.artifacts
                  /\ r.s.programManager.artifacts[k] = Artifacts[k]

\* C4 amended: no run calls build for a key it was called for before; no run
\* calls ProgramInfoLoader.get for a key that is cached, and a successful run
\* that calls it also builds; a successful run on a cached key dispatches
\* the cached artifact; no run replaces a cached artifact.
C4_CompileOnceAmended ==
    \A c \in CacheRunCalls :
        LET r == run(St, c[1], c[2], c[3])
        IN  /\ r.builds => r.key \notin programManager.built
            /\ r.builds => r.s.programManager.artifacts[r.key] = r.artifact
            /\ r.loads => r.key \notin DOMAIN Artifacts
            /\ r.loads /\ r.err = "none" => r.builds
            /\ r.err = "none" /\ r.key \in DOMAIN Artifacts => r.artifact = Artifacts[r.key]
            /\ \A k \in DOMAIN Artifacts :
                  /\ k \in DOMAIN r.s.programManager.artifacts
                  /\ r.s.programManager.artifacts[k] = Artifacts[k]

\* a run has dispatched an artifact that an earlier run built
C4_Witness ==
    /\ last = [op |-> "run", err |-> "none", frame |-> NULL]
    /\ programManager.serial >= 1
    /\ device.nextCommand - 1 > programManager.serial

\* C9: a run call with a number of inputs other than the program declares
\* fails with the input-size error and changes nothing; made by a kernel
\* entry point that lets the error propagate, it ends the invocation with
\* currentKernelId null, no cache entry, no buffer and no dispatch added.
C9_InputArity ==
    \A c \in RunCalls :
        Len(c[2]) # Len(c[1].inputTypes) =>
            LET r == run(St, c[1], c[2], c[3])
                u == throwToKernel(r, TRUE)
            IN  /\ r.err = "InputSize"
                /\ r.s = St
                /\ r.out = <<>>
                /\ callStack # <<>> =>
                      /\ u.currentKernelId = NULL
                      /\ u.callStack = SubSeq(callStack, 1, Len(callStack) - 1)
                      /\ u.temporaryData = <<>>
                      /\ u.programManager = programManager
                      /\ u.kernelPersistentData = kernelPersistentData
                      /\ u.device = device
                      /\ u.gpuDataManager.nextId = gpuDataManager.nextId

\* a run call inside a kernel failed on its inputs' number and the
\* invocation has ended
C9_Witness ==
    /\ last.op = "run"
    /\ last.err = "InputSize"
    /\ last.frame # NULL
    /\ callStack = <<>>
    /\ currentKernelId = NULL

\* C10 as claimed: a run call that reaches the check of the outputs and
\* whose number of requested output slots is not the program's declared
\* output count fails with the output-size error and produces no output.
C10_OutputCount ==
    \A c \in CacheRunCalls :
        InputsAccepted(c) /\ Len(c[3]) # c[1].outputs =>
            LET r == run(St, c[1], c[2], c[3])
            IN  r.err = "OutputSize" /\ r.out = <<>>

\* C10 amended: a run call that passes the input checks fails with the
\* output-size error exactly when its request is not empty and its length
\* is not the output count of the program info the run works with; it then
\* produces no output, creates no buffer, records nothing and caches nothing.
C10_OutputCountAmended ==
    \A c \in CacheRunCalls :
        InputsAccepted(c) =>
            LET r == run(St, c[1], c[2], c[3])
            IN  /\ (r.err = "OutputSize") <=>
                      (Len(c[3]) # 0 /\ Len(c[3]) # Resolved(c).outputs)
                /\ r.err = "OutputSize" =>
                      /\ r.out = <<>>
                      /\ r.s.gpuDataManager = gpuDataManager
                      /\ r.s.device = device
                      /\ r.s.programManager.artifacts = Artifacts
                      /\ r.s.kernelPersistentData = kernelPersistentData
                      /\ r.s.temporaryData = temporaryData

\* a run call has failed with the output-size error
C10_Witness ==
    /\ last.op = "run"
    /\ last.err = "OutputSize"

\* the recording session: the handles, the counter and the device behind them
Session(s) ==
    [commandEncoder |-> s.commandEncoder, computePassEncoder |-> s.computePassEncoder,
     pendingDispatchNumber |-> s.pendingDispatchNumber, device |-> s.device]

\* C11: a run call made by a kernel entry point that fails on an output slot
\* out of the declared range (not an integer, below -2, or not below the
\* output count) and whose error ends the invocation leaves, once
\* the enclosing invocation has ended, the persistent-buffer map, the program
\* cache and the recording session as they were before the call, whatever
\* the slots before the failing one were.
C11_InvalidIndexFrame ==
    \A c \in RunCalls :
        LET r == run(St, c[1], c[2], c[3])
            u == throwToKernel(r, TRUE)
        IN  callStack # <<>> /\ r.err = "InvalidOutputIndex" =>
                /\ u.callStack = SubSeq(callStack, 1, Len(callStack) - 1)
                /\ u.kernelPersistentData = kernelPersistentData
                /\ u.programManager.artifacts = Artifacts
                /\ Session(u) = Session(St)

\* the dispatches recorded and not yet submitted to the queue
Unsubmitted(dev) == (dev.nextCommand - 1) - Len(Flatten(dev.queue))

\* C12: the counter is the number of dispatches recorded since the last
\* flush, which are the dispatches recorded and not submitted, and it never
\* exceeds the flush threshold; a successful run records one dispatch and
\* counts it, and flushes when the counter thereby reaches the threshold; a
\* failed run records nothing.
C12_BoundedBatching ==
    /\ pendingDispatchNumber = Unsubmitted(device)
    /\ pendingDispatchNumber <= FlushThreshold
    /\ \A c \in CacheRunCalls :
          LET r == run(St, c[1], c[2], c[3])
          IN  /\ r.err # "none" =>
                    /\ r.s.device = device
                    /\ r.s.pendingDispatchNumber = pendingDispatchNumber
              /\ r.err = "none" =>
                    /\ r.s.device.nextCommand = device.nextCommand + 1
                    /\ IF pendingDispatchNumber + 1 >= FlushThreshold
                       THEN /\ r.s.pendingDispatchNumber = 0
                            /\ Unsubmitted(r.s.device) = 0
                            /\ Len(r.s.device.queue) = Len(device.queue) + 1
                            /\ r.s.commandEncoder = NULL
                       ELSE /\ r.s.pendingDispatchNumber = pendingDispatchNumber + 1
                            /\ r.s.device.queue = device.queue

\* a run has brought the counter to the threshold and flushed the dispatches
\* of the runs since the flush before
C12_Witness ==
    /\ last.op = "run"
    /\ last.err = "none"
    /\ Len(device.queue) = 1
    /\ Len(device.queue[1]) = FlushThreshold
    /\ pendingDispatchNumber = 0
    /\ commandEncoder = NULL

\* the commands submitted to the queue
Submitted(dev) == {Flatten(dev.queue)[k] : k \in 1..Len(Flatten(dev.queue))}

Reads == gpuDataManager.reads

C15_RejectedAtEntry ==
    /\ callStack # <<>> => currentKernelId = callStack[Len(callStack)]
    /\ \A kernelId \in KernelIds, parserThrows \in BOOLEAN :
          LET r == computeKernelEnter(St, kernelId, parserThrows)
              f == computeKernelFinally(r.s)
          IN  /\ kernelId \notin Registered => r.err = "NotCreated"
              /\ kernelId \in Registered /\ callStack # <<>> => r.err = "Recursive"
              /\ r.err \in {"NotCreated", "Recursive"} =>
                    /\ ~r.entered
                    /\ r.s = St
                    /\ callStack # <<>> =>
                          /\ f.err = "none"
                          /\ f.s.currentKernelId = NULL
                          /\ f.s.temporaryData = <<>>
                          /\ f.s.callStack = SubSeq(callStack, 1, Len(callStack) - 1)
                          /\ f.s.kernels = kernels
                          /\ \A i \in 1..Len(temporaryData) :
                                /\ gpuDataManager.buffers[temporaryData[i]].released = 0
                                /\ f.s.gpuDataManager.buffers[temporaryData[i]].released = 1

\* a computeKernel call made by the entry point of a running kernel that
\* holds a temporary buffer was rejected as recursive, and the kernel runs on
C15_Witness ==
    /\ last.op = "computeKernel"
    /\ last.err = "Recursive"
    /\ last.frame # NULL
    /\ callStack # <<>>
    /\ temporaryData # <<>>
    /\ currentKernelId = callStack[1]

\* the buffers attached to kernel id k in persistent-buffer map m
Attached(m, k) == IF k \in DOMAIN m THEN {m[k][i] : i \in 1..Len(m[k])} ELSE {}

\* C16: releaseKernel(id) does not fail; it releases each buffer attached to
\* id, none of which was released before, exactly once, and no other buffer;
\* afterwards id has no persistent-buffer entry and names no instance, so
\* computeKernel(id) fails as not created and a second releaseKernel(id)
\* changes nothing; the entries and the instances of other ids are as before.
C16_ReleaseKernel ==
    \A kernelId \in KernelIds :
        LET r == releaseKernel(St, kernelId)
            mine == Attached(kernelPersistentData, kernelId)
        IN  /\ r.err = "none"
            /\ kernelId \in DOMAIN kernelPersistentData =>
                  Cardinality(mine) = Len(kernelPersistentData[kernelId])
            /\ \A b \in BufferIds :
                  r.s.gpuDataManager.buffers[b].released =
                      gpuDataManager.buffers[b].released + (IF b \in mine THEN 1 ELSE 0)
            /\ \A b \in mine : gpuDataManager.buffers[b].released = 0
            /\ r.s.gpuDataManager.storage = gpuDataManager.storage \ mine
            /\ r.s.kernelPersistentData = Remove(kernelPersistentData, kernelId)
            /\ r.s.kernels = Remove(kernels, kernelId)
            /\ \A parserThrows \in BOOLEAN :
                  computeKernelEnter(r.s, kernelId, parserThrows).err = "NotCreated"
            /\ releaseKernel(r.s, kernelId) = [s |-> r.s, err |-> "none"]
            /\ r.s.temporaryData = temporaryData
            /\ r.s.currentKernelId = currentKernelId

\* releaseKernel has released the persistent buffer of one instance while
\* another instance keeps its own
C16_Witness ==
    /\ last.op = "releaseKernel"
    /\ \E released \in KernelIds, other \in KernelIds :
          /\ released \notin Registered
          /\ released \notin DOMAIN kernelPersistentData
          /\ other \in Registered
          /\ other \in DOMAIN kernelPersistentData
          /\ \E b \in BufferIds :
                /\ gpuDataManager.buffers[b].kernel = released
                /\ gpuDataManager.buffers[b].marker = -1
                /\ gpuDataManager.buffers[b].released = 1
          /\ \A b \in Attached(kernelPersistentData, other) :
                gpuDataManager.buffers[b].released = 0

\* the rule of instance k names an attribute parser
HasParser(k) == WEBGPU_OP_RESOLVE_RULES[kernels[k].name].parser

\* C17: the attribute parser of an instance runs at most once: createKernel
\* registers the raw payload and runs no parser; a computeKernel call that
\* passes the entry checks runs the parser, on the raw payload, exactly when
\* it has not run for the instance before; a call that enters the kernel
\* entry point of an instance with a parser hands it the parsed value, and
\* one on an instance whose attribute is parsed leaves the attribute as it
\* is; a rejected call runs no parser.
C17_ParseOnce ==
    /\ \A k \in Registered :
          /\ kernels[k].parsed <= 1
          /\ kernels[k].parsed = 0 => kernels[k].attribute = "raw"
                                       /\ kernels[k].parser = HasParser(k)
          /\ kernels[k].attribute = "parsed" => kernels[k].parsed = 1 /\ ~kernels[k].parser
          /\ kernels[k].parser => kernels[k].attribute = "raw"
    /\ \A name \in KernelNames, kernelId \in KernelIds :
          LET r == createKernel(St, name, kernelId)
          IN  r.err = "none" =>
                  /\ r.s.kernels[kernelId].parsed = 0
                  /\ r.s.kernels[kernelId].attribute = "raw"
                  /\ \A k \in Registered \ {kernelId} : r.s.kernels[k] = kernels[k]
    /\ \A kernelId \in Registered, parserThrows \in BOOLEAN :
          LET r == computeKernelEnter(St, kernelId, parserThrows)
              ran == r.s.kernels[kernelId].parsed - kernels[kernelId].parsed
          IN  /\ \A k \in Registered \ {kernelId} : r.s.kernels[k] = kernels[k]
              /\ r.err \in {"NotCreated", "Recursive"} => ran = 0
              /\ r.err \in {"none", "ParseError"} =>
                    /\ ran = (IF HasParser(kernelId) /\ kernels[kernelId].parsed = 0
                              THEN 1 ELSE 0)
                    /\ ran = 1 => kernels[kernelId].attribute = "raw"
              /\ kernels[kernelId].attribute = "parsed" =>
                    r.s.kernels[kernelId] = kernels[kernelId]
              /\ r.entered /\ HasParser(kernelId) =>
                    r.s.kernels[kernelId].attribute = "parsed"

\* a second computeKernel call on an instance whose attribute the first call
\* parsed has entered the kernel entry point
C17_Witness ==
    /\ last.op = "computeKernel"
    /\ last.err = "none"
    /\ callStack # <<>>
    /\ kernels[callStack[1]].attribute = "parsed"
    /\ kernels[callStack[1]].parsed = 1
    /\ \E b \in BufferIds :
          /\ gpuDataManager.buffers[b].kernel = callStack[1]
          /\ gpuDataManager.buffers[b].inCall
          /\ gpuDataManager.buffers[b].marker = -2
          /\ gpuDataManager.buffers[b].released = 1

\* initialization fails in environment e
InitializationFails(e) ==
    \/ ~e.gpu
    \/ ~e.adapter
    \/ e.deviceFails
    \/ /\ e.querySetFails
       /\ e.timestampQuery
       /\ variant = "jsep" => e.profilingDefault

\* C18: whatever makes initialization fail (no WebGPU, no adapter, the
\* device request or the creation of the query set failing), initialize on
\* a new backend raises no error: its promise is fulfilled, with a failure
\* result, and it leaves no command encoder, no compute pass and no pending
\* dispatch.
C18_InitializeFailure ==
    last.op = "new" =>
        \A e \in Environments :
            LET r == initialize(St, e)
            IN  InitializationFails(e) =>
                    /\ r.err = "none"
                    /\ r.result = "false"
                    /\ r.s.commandEncoder = NULL
                    /\ r.s.computePassEncoder = NULL
                    /\ r.s.pendingDispatchNumber = 0

\* the buffers the temporary list td tracks
Tracked(td) == IF td = UNDEFINED THEN {} ELSE {td[i] : i \in 1..Len(td)}

\* C19: no step drops a buffer from temporaryData without releasing it, and
\* temporaryData tracks no buffer while currentKernelId is null.
C19_NoTemporaryDropped ==
    [][ /\ \A b \in Tracked(temporaryData) \ Tracked(temporaryData') :
              gpuDataManager'.buffers[b].released = 1
        /\ currentKernelId' = NULL => Tracked(temporaryData') = {}
      ]_vars

\* C20: every key of kernelPersistentData is the id of a registered kernel
\* instance (never null, never the id of a released instance), so that
\* releaseKernel of a registered instance releases each persistent buffer.
C20_PersistentReclaimable ==
    /\ NULL \notin DOMAIN kernelPersistentData
    /\ DOMAIN kernelPersistentData \subseteq Registered
    /\ \A b \in BufferIds :
          gpuDataManager.buffers[b].marker = -1 /\ gpuDataManager.buffers[b].released = 0
              => \E k \in Registered : b \in Attached(kernelPersistentData, k)

\* the components the fingerprint of call c is made of
Fingerprinted(c) ==
    [name |-> c[1].name, cacheHint |-> c[1].cacheHint,
     shapes |-> [i \in 1..Len(c[2]) |-> c[2][i].dims],
     types |-> [i \in 1..Len(c[2]) |-> c[2][i].type]]

\* C21: two invocations whose keys are equal agree on the program name, the
\* cache hint, the list of input shapes and the list of input GPU data
\* types, so that no two invocations that differ in one of them share a
\* cache entry.
C21_KeyInjective ==
    \A c1 \in CacheRunCalls, c2 \in CacheRunCalls :
        /\ InputKey(c1[1], c1[2]) = InputKey(c2[1], c2[2])
        /\ InputKey(c1[1], c1[2]) \in DOMAIN Artifacts
        => Fingerprinted(c1) = Fingerprinted(c2)

\* C22: in a successful run no kernel output index is requested for two
\* outputs of the program, and the buffers of the returned output tensors
\* are pairwise distinct.
C22_NoAliasing ==
    \A c \in CacheRunCalls :
        LET r == run(St, c[1], c[2], c[3])
            requested == validateOutputIndices(c[3], Resolved(c))
        IN  r.err = "none" =>
                \A i \in 1..Len(r.out), j \in 1..Len(r.out) :
                    i < j =>
                        /\ requested[i] >= 0 => requested[i] # requested[j]
                        /\ r.out[i] # r.out[j]

====
